---- MODULE Spec2Model ----
(***************************************************************************)
(* The resource orchestration layer of the HubSpot source                  *)
(* (src/hubspot/__init__.py): property resolution, chunked stage-timing    *)
(* extraction, live/archived fetching, the stage pivot and the per-id      *)
(* event router.                                                           *)
(*                                                                         *)
(* A Python str is a sequence of one-character strings.  A Python dict is  *)
(* a sequence of [k, v] entries in insertion order with distinct keys.     *)
(* Python indices are 0-based; the operators below convert.                *)
(***************************************************************************)
EXTENDS Integers, Sequences, FiniteSets, TLC

VARIABLES
    resource,       \* which resource generator this run drives
    pc,             \* position of the resource generator
    object_type,    \* the object type argument
    soft_delete,    \* the soft_delete / archived argument
    catalog,        \* what _get_property_names returns for the object type
    requests,       \* calls issued to external collaborators, in order
    fetch,          \* the fetch_data generator being drained, or NoFetch
    yielded,        \* items delivered to the consumer, in order
    error,          \* the exception that ended the generator, or NoError
    props,          \* local `props` (stages_timing, crm_objects)
    idx,            \* local `idx` of stages_timing
    chunks,         \* every props_part stages_timing passed on, in order
    prop_spec,      \* the `props` argument of crm_objects; the dlt
                    \* configuration (crm_object_history, hubspot_properties)
    include_custom_props,
    data,           \* argument of pivot_stages_properties (pivot run);
                    \* the properties_list argument of hubspot_properties
    new_data,       \* the pivot's result; the resolved properties_list
    object_ids,     \* the id list of the event router
    clock,          \* wall clock, in hours after STARTDATE
    end_date,       \* local `end_date` of hubspot_events_for_objects
    last_value,     \* occurred_at.last_value, the incremental cursor
    pos             \* number of ids of object_ids the for loop has taken

vars == <<resource, pc, object_type, soft_delete, catalog, requests, fetch,
          yielded, error, props, idx, chunks, prop_spec, include_custom_props,
          data, new_data, object_ids, clock, end_date, last_value, pos>>

-----------------------------------------------------------------------------
(* Bounds of the model *)

MaxStageCatalog == 3    \* property names in a stage-timing catalog
MaxChunks == 3          \* chunk iterations of stages_timing that are followed
MaxPages == 1           \* pages one fetch_data call yields
MaxCatalog == 2         \* property names in a CRM catalog
MaxSpec == 2            \* descriptors in a configured property list
MaxPageLen == 2         \* records in a page given to the pivot
MaxIds == 2             \* object ids given to the event router
MaxClock == 3           \* hours the clock runs to

-----------------------------------------------------------------------------
(* settings.py *)

MAX_PROPS_LENGTH == 2000
PAGE_LIMIT == 100
STAGE_PROPERTY_PREFIX ==
    <<"h","s","_","d","a","t","e","_","e","n","t","e","r","e","d","_">>
SOFT_DELETE_KEY == <<"i","s","_","d","e","l","e","t","e","d">>
CRM_OBJECT_ENDPOINTS ==
    [contact |-> "/crm/v3/objects/contacts?associations=deals,products,tickets,quotes",
     company |-> "/crm/v3/objects/companies?associations=contacts,deals,products,tickets,quotes",
     deal |-> "/crm/v3/objects/deals",
     product |-> "/crm/v3/objects/products",
     ticket |-> "/crm/v3/objects/tickets",
     quote |-> "/crm/v3/objects/quotes",
     owner |-> "/crm/v3/owners/"]
\* CRM_PIPELINES_ENDPOINT.format(objectType=ot)
CRM_PIPELINES_ENDPOINT(ot) == "/crm/v3/pipelines/" \o ot
OBJECT_TYPE_SINGULAR ==
    [companies |-> "company",
     contacts |-> "contact",
     deals |-> "deal",
     tickets |-> "ticket",
     products |-> "product",
     quotes |-> "quote",
     owners |-> "owner"]
OBJECT_TYPE_PLURAL ==
    [company |-> "companies",
     contact |-> "contacts",
     deal |-> "deals",
     ticket |-> "tickets",
     product |-> "products",
     quote |-> "quotes",
     owner |-> "owners"]
\* OBJECT_TYPE_PLURAL.keys(), in the order of the dict
ALL_OBJECTS == <<"company", "contact", "deal", "ticket", "product", "quote", "owner">>
DEFAULT_PROPERTIES ==
    [company |->
        << <<"c","r","e","a","t","e","d","a","t","e">>,
           <<"d","o","m","a","i","n">>,
           <<"h","s","_","l","a","s","t","m","o","d","i","f","i","e","d","d","a","t","e">>,
           <<"h","s","_","o","b","j","e","c","t","_","i","d">>,
           <<"n","a","m","e">> >>,
     contact |->
        << <<"c","r","e","a","t","e","d","a","t","e">>,
           <<"e","m","a","i","l">>,
           <<"f","i","r","s","t","n","a","m","e">>,
           <<"h","s","_","o","b","j","e","c","t","_","i","d">>,
           <<"l","a","s","t","m","o","d","i","f","i","e","d","d","a","t","e">>,
           <<"l","a","s","t","n","a","m","e">> >>,
     deal |->
        << <<"a","m","o","u","n","t">>,
           <<"c","l","o","s","e","d","a","t","e">>,
           <<"c","r","e","a","t","e","d","a","t","e">>,
           <<"d","e","a","l","n","a","m","e">>,
           <<"d","e","a","l","s","t","a","g","e">>,
           <<"h","s","_","l","a","s","t","m","o","d","i","f","i","e","d","d","a","t","e">>,
           <<"h","s","_","o","b","j","e","c","t","_","i","d">>,
           <<"p","i","p","e","l","i","n","e">> >>,
     ticket |->
        << <<"c","r","e","a","t","e","d","a","t","e">>,
           <<"c","o","n","t","e","n","t">>,
           <<"h","s","_","l","a","s","t","m","o","d","i","f","i","e","d","d","a","t","e">>,
           <<"h","s","_","o","b","j","e","c","t","_","i","d">>,
           <<"h","s","_","p","i","p","e","l","i","n","e">>,
           <<"h","s","_","p","i","p","e","l","i","n","e","_","s","t","a","g","e">>,
           <<"h","s","_","t","i","c","k","e","t","_","c","a","t","e","g","o","r","y">>,
           <<"h","s","_","t","i","c","k","e","t","_","p","r","i","o","r","i","t","y">>,
           <<"s","u","b","j","e","c","t">> >>,
     product |->
        << <<"c","r","e","a","t","e","d","a","t","e">>,
           <<"d","e","s","c","r","i","p","t","i","o","n">>,
           <<"h","s","_","l","a","s","t","m","o","d","i","f","i","e","d","d","a","t","e">>,
           <<"h","s","_","o","b","j","e","c","t","_","i","d">>,
           <<"n","a","m","e">>,
           <<"p","r","i","c","e">> >>,
     quote |->
        << <<"h","s","_","c","r","e","a","t","e","d","a","t","e">>,
           <<"h","s","_","e","x","p","i","r","a","t","i","o","n","_","d","a","t","e">>,
           <<"h","s","_","l","a","s","t","m","o","d","i","f","i","e","d","d","a","t","e">>,
           <<"h","s","_","o","b","j","e","c","t","_","i","d">>,
           <<"h","s","_","p","u","b","l","i","c","_","u","r","l","_","k","e","y">>,
           <<"h","s","_","s","t","a","t","u","s">>,
           <<"h","s","_","t","i","t","l","e">> >>]
\* PROPERTIES_CONFIG_KEY.format(plural)
PROPERTIES_CONFIG_KEY(plural) == "sources.hubspot." \o plural \o ".properties"
PIPELINES_OBJECTS == <<"deals">>

-----------------------------------------------------------------------------
(* Python str and list primitives *)

Comma == <<",">>
None == <<"None">>

Min(S) == CHOOSE x \in S : \A y \in S : x <= y

Rep(c, n) == [i \in 1..n |-> c]

\* s[i:j] with 0-based i, j and the clamping of Python slices
Slice(s, i, j) ==
    LET hi == IF j < Len(s) THEN j ELSE Len(s)
    IN  IF i >= hi THEN <<>> ELSE SubSeq(s, i + 1, hi)

\* s.startswith(p)
StartsWith(s, p) == Len(s) >= Len(p) /\ SubSeq(s, 1, Len(p)) = p

\* s.find(sep, from), 1-based; 0 when there is no occurrence
Find(s, sep, from) ==
    LET C == {i \in from..(Len(s) - Len(sep) + 1) :
                 \A j \in DOMAIN sep : s[i + j - 1] = sep[j]}
    IN  IF C = {} THEN 0 ELSE Min(C)

RECURSIVE SplitFrom(_, _, _)
SplitFrom(s, sep, from) ==
    LET k == Find(s, sep, from)
    IN  IF k = 0 THEN << Slice(s, from - 1, Len(s)) >>
        ELSE << Slice(s, from - 1, k - 1) >> \o SplitFrom(s, sep, k + Len(sep))

\* s.split(sep)
Split(s, sep) == SplitFrom(s, sep, 1)

\* sep.join(parts)
RECURSIVE Join(_, _)
Join(parts, sep) ==
    IF parts = <<>> THEN <<>>
    ELSE IF Len(parts) = 1 THEN parts[1]
    ELSE parts[1] \o sep \o Join(Tail(parts), sep)

\* parts[:-1]
ButLast(parts) == IF parts = <<>> THEN <<>> ELSE SubSeq(parts, 1, Len(parts) - 1)

-----------------------------------------------------------------------------
(* Python dict primitives *)

HasKey(d, key) == \E i \in DOMAIN d : d[i].k = key
Get(d, key) == d[CHOOSE i \in DOMAIN d : d[i].k = key].v
Pop(d, key) == SelectSeq(d, LAMBDA e : e.k # key)
\* d[key] = val: an existing key keeps its place
SetItem(d, key, val) ==
    IF HasKey(d, key)
    THEN [i \in DOMAIN d |-> IF d[i].k = key THEN [k |-> key, v |-> val] ELSE d[i]]
    ELSE Append(d, [k |-> key, v |-> val])
Items(d) == {d[i] : i \in DOMAIN d}

-----------------------------------------------------------------------------
(* pivot_stages_properties *)

StageKey == <<"s","t","a","g","e">>
IdProp == <<"i","d">>

PivotRecord(record, property_prefix, id_prop) ==
    LET record_not_null == SelectSeq(record, LAMBDA e : e.v # None)
    IN  IF ~HasKey(record_not_null, id_prop) THEN <<>>
        ELSE LET id_val == Get(record_not_null, id_prop)
                 rest == Pop(record_not_null, id_prop)
                 staged == SelectSeq(rest, LAMBDA e : StartsWith(e.k, property_prefix))
             IN  [i \in DOMAIN staged |->
                    SetItem(SetItem(SetItem(<<>>, id_prop, id_val),
                                    property_prefix, staged[i].v),
                            StageKey, Split(staged[i].k, property_prefix)[2])]

RECURSIVE PivotFrom(_, _, _, _)
PivotFrom(page, property_prefix, id_prop, i) ==
    IF i > Len(page) THEN <<>>
    ELSE PivotRecord(page[i], property_prefix, id_prop)
         \o PivotFrom(page, property_prefix, id_prop, i + 1)

pivot_stages_properties(page) == PivotFrom(page, STAGE_PROPERTY_PREFIX, IdProp, 1)

-----------------------------------------------------------------------------
(* fetch_data (helpers) as the orchestration layer sees it: a lazy sequence
   of pages for one call; every record of a page is updated with the call's
   context when one is given. *)

False == <<"False">>
True == <<"True">>
NoContext == <<>>               \* context=None: nothing is added to a record
NoFetch == [kind |-> "none"]
NoError == [kind |-> "none"]

RecExample ==
    << [k |-> IdProp, v |-> <<"1">>],
       [k |-> STAGE_PROPERTY_PREFIX \o <<"o","p","e","n">>, v |-> <<"t","1">>],
       [k |-> STAGE_PROPERTY_PREFIX \o <<"c","l","o","s","e","d">>, v |-> None],
       [k |-> <<"o","t","h","e","r">>, v |-> None] >>

\* the pages the CRM endpoints answer with
FetchPages == { << RecExample >> }

RECURSIVE Update(_, _)
\* record.update(context)
Update(record, context) ==
    IF context = <<>> THEN record
    ELSE Update(SetItem(record, context[1].k, context[1].v), Tail(context))

TagPage(page, context) == [i \in DOMAIN page |-> Update(page[i], context)]

FetchDataCall(endpoint, params, context) ==
    [kind |-> "fetch_data", endpoint |-> endpoint, params |-> params,
     context |-> context]

-----------------------------------------------------------------------------
(* fetch_data_for_properties *)

LiveParams(p) == [properties |-> p, limit |-> PAGE_LIMIT]
ArchivedParams(p) == [properties |-> p, limit |-> PAGE_LIMIT, archived |-> TRUE]

\* the live partition tagged as deleted
LiveContext_Deleted(sd) ==
    IF sd THEN << [k |-> SOFT_DELETE_KEY, v |-> True] >> ELSE NoContext

LiveContext(sd) ==
    IF sd THEN << [k |-> SOFT_DELETE_KEY, v |-> False] >> ELSE NoContext
ArchivedContext == << [k |-> SOFT_DELETE_KEY, v |-> True] >>

LiveCall(p, ot, sd) ==
    FetchDataCall(CRM_OBJECT_ENDPOINTS[ot], LiveParams(p), LiveContext(sd))
ArchivedCall(p, ot) ==
    FetchDataCall(CRM_OBJECT_ENDPOINTS[ot], ArchivedParams(p), ArchivedContext)

\* the archived partition fetched whatever soft_delete says
FetchesArchived_Always(sd) == TRUE

\* does the generator go on to the archived partition when the live one ends
FetchesArchived(sd) == sd

\* the first fetch of fetch_data_for_properties(p, api_key, object_type, soft_delete)
\* (log: the calls issued before it)
StartFetchDataForProperties(p, log) ==
    /\ fetch' = [call |-> LiveCall(p, object_type, soft_delete), part |-> "live",
                 pages |-> 0]
    /\ requests' = Append(log, LiveCall(p, object_type, soft_delete))

\* what the resource yields for a page of fetch_data_for_properties
Emit(page) == IF resource = "stages" THEN pivot_stages_properties(page) ELSE page

\* the fetch being drained answers with one more page
FetchPage ==
    /\ resource \in {"crm", "stages"}
    /\ pc = "fetching"
    /\ fetch.pages < MaxPages
    /\ \E page \in FetchPages :
          yielded' = Append(yielded,
                            [item |-> Emit(TagPage(page, fetch.call.context)),
                             req |-> Len(requests)])
    /\ fetch' = [fetch EXCEPT !.pages = @ + 1]
    /\ UNCHANGED <<resource, pc, object_type, soft_delete, catalog, requests,
                   error, props, idx, chunks, prop_spec, include_custom_props,
                   data, new_data, object_ids, clock, end_date, last_value, pos>>

\* the live partition is exhausted and the archived one is fetched
FetchLiveEndArchived ==
    /\ resource \in {"crm", "stages"}
    /\ pc = "fetching"
    /\ fetch.part = "live"
    /\ FetchesArchived(soft_delete)
    /\ fetch' = [call |-> ArchivedCall(fetch.call.params.properties, object_type),
                 part |-> "archived", pages |-> 0]
    /\ requests' = Append(requests,
                          ArchivedCall(fetch.call.params.properties, object_type))
    /\ UNCHANGED <<resource, pc, object_type, soft_delete, catalog, yielded,
                   error, props, idx, chunks, prop_spec, include_custom_props,
                   data, new_data, object_ids, clock, end_date, last_value, pos>>

\* the last partition is exhausted: fetch_data_for_properties returns
FetchReturn ==
    /\ resource \in {"crm", "stages"}
    /\ pc = "fetching"
    /\ fetch.part = "archived" \/ ~FetchesArchived(soft_delete)
    /\ fetch' = NoFetch
    /\ pc' = IF resource = "stages" THEN "loop" ELSE "done"
    /\ UNCHANGED <<resource, object_type, soft_delete, catalog, requests,
                   yielded, error, props, idx, chunks, prop_spec,
                   include_custom_props, data, new_data, object_ids, clock,
                   end_date, last_value, pos>>

\* fetch_data raises: nothing catches it, the resource generator ends
FetchRaise ==
    /\ resource \in {"crm", "stages"}
    /\ pc = "fetching"
    /\ error' = [kind |-> "fetch_data", request |-> Len(requests)]
    /\ fetch' = NoFetch
    /\ pc' = "failed"
    /\ UNCHANGED <<resource, object_type, soft_delete, catalog, requests,
                   yielded, props, idx, chunks, prop_spec,
                   include_custom_props, data, new_data, object_ids, clock,
                   end_date, last_value, pos>>

\* the consumer stops pulling while the generator is suspended at a yielded
\* page: the rest of the lazy work is never run
ConsumerStop ==
    /\ resource \in {"crm", "stages", "pipelines", "history"}
    /\ pc = "fetching"
    /\ fetch.pages > 0
    /\ fetch' = NoFetch
    /\ pc' = "closed"
    /\ UNCHANGED <<resource, object_type, soft_delete, catalog, requests,
                   yielded, error, props, idx, chunks, prop_spec,
                   include_custom_props, data, new_data, object_ids, clock,
                   end_date, last_value, pos>>

-----------------------------------------------------------------------------
(* stages_timing *)

PropertyNamesCall(ot) == [kind |-> "_get_property_names", object_type |-> ot]

DateEnteredProperties(all_properties) ==
    SelectSeq(all_properties, LAMBDA prop : StartsWith(prop, STAGE_PROPERTY_PREFIX))

\* props_part of one loop iteration
PropsPart(p, i) ==
    IF Len(p) - i < MAX_PROPS_LENGTH
    THEN Join(ButLast(Split(Slice(p, i, i + MAX_PROPS_LENGTH), Comma)), Comma)
    ELSE Slice(p, i, i + MAX_PROPS_LENGTH)

StagesStart ==
    /\ resource = "stages"
    /\ pc = "start"
    /\ requests' = Append(requests, PropertyNamesCall(object_type))
    /\ props' = Join(DateEnteredProperties(catalog), Comma)
    /\ idx' = 0
    /\ pc' = "loop"
    /\ UNCHANGED <<resource, object_type, soft_delete, catalog, fetch, yielded,
                   error, chunks, prop_spec, include_custom_props, data,
                   new_data, object_ids, clock, end_date, last_value, pos>>

\* one iteration of `while idx < len(props)` up to its first fetch
StagesChunk ==
    /\ resource = "stages"
    /\ pc = "loop"
    /\ idx < Len(props)
    /\ Len(chunks) < MaxChunks
    /\ idx' = idx + Len(PropsPart(props, idx))
    /\ chunks' = Append(chunks, PropsPart(props, idx))
    /\ StartFetchDataForProperties(PropsPart(props, idx), requests)
    /\ pc' = "fetching"
    /\ UNCHANGED <<resource, object_type, soft_delete, catalog, yielded, error,
                   props, prop_spec, include_custom_props, data, new_data,
                   object_ids, clock, end_date, last_value, pos>>

\* the loop condition fails: the generator is exhausted
StagesEnd ==
    /\ resource = "stages"
    /\ pc = "loop"
    /\ ~(idx < Len(props))
    /\ pc' = "done"
    /\ UNCHANGED <<resource, object_type, soft_delete, catalog, requests, fetch,
                   yielded, error, props, idx, chunks, prop_spec,
                   include_custom_props, data, new_data, object_ids, clock,
                   end_date, last_value, pos>>

\* the property names a deal catalog is made of
StageNames ==
    { STAGE_PROPERTY_PREFIX \o <<"a">>,
      STAGE_PROPERTY_PREFIX \o Rep("b", MAX_PROPS_LENGTH \div 2 - 16),
      STAGE_PROPERTY_PREFIX \o Rep("c", MAX_PROPS_LENGTH \div 2 - 17),
      STAGE_PROPERTY_PREFIX \o Rep("d", MAX_PROPS_LENGTH - 17),
      <<"a","m","o","u","n","t">> }

\* lists of distinct elements of S, of length at most n
DistinctSeqs(S, n) ==
    UNION { {s \in [1..k -> S] : \A i, j \in 1..k : s[i] = s[j] => i = j}
            : k \in 0..n }

StageCatalogs == DistinctSeqs(StageNames, MaxStageCatalog)

InitStages ==
    /\ resource = "stages"
    /\ pc = "start"
    /\ object_type = OBJECT_TYPE_SINGULAR[PIPELINES_OBJECTS[1]]
    /\ soft_delete \in BOOLEAN
    /\ catalog \in StageCatalogs
    /\ requests = <<>>
    /\ fetch = NoFetch
    /\ yielded = <<>>
    /\ error = NoError
    /\ props = <<>>
    /\ idx = 0
    /\ chunks = <<>>
    /\ prop_spec = <<>>
    /\ include_custom_props = FALSE
    /\ data = <<>>
    /\ new_data = <<>>
    /\ object_ids = <<>>
    /\ clock = 0
    /\ end_date = <<>>
    /\ last_value = <<>>
    /\ pos = 0

NextStages ==
    \/ StagesStart
    \/ StagesChunk
    \/ StagesEnd
    \/ FetchPage
    \/ FetchLiveEndArchived
    \/ FetchReturn
    \/ FetchRaise
    \/ ConsumerStop

SpecStages == InitStages /\ [][NextStages]_vars

-----------------------------------------------------------------------------
(* str comparison and sorted() *)

Lower == <<"a","b","c","d","e","f","g","h","i","j","k","l","m",
           "n","o","p","q","r","s","t","u","v","w","x","y","z">>
Digits == <<"0","1","2","3","4","5","6","7","8","9">>

\* ord(c) for the characters property names and timestamps are made of
CodePoint(c) ==
    IF \E i \in DOMAIN Lower : Lower[i] = c
    THEN 96 + (CHOOSE i \in DOMAIN Lower : Lower[i] = c)
    ELSE IF \E i \in DOMAIN Digits : Digits[i] = c
    THEN 47 + (CHOOSE i \in DOMAIN Digits : Digits[i] = c)
    ELSE CASE c = "%" -> 37 [] c = "+" -> 43 [] c = "," -> 44 [] c = "-" -> 45
           [] c = ":" -> 58 [] c = "A" -> 65 [] c = "B" -> 66 [] c = "T" -> 84
           [] c = "_" -> 95

\* a < b for two str
StrLess(a, b) ==
    LET n == IF Len(a) < Len(b) THEN Len(a) ELSE Len(b)
        d == CHOOSE i \in 1..(n + 1) :
                 /\ i = n + 1 \/ a[i] # b[i]
                 /\ \A j \in 1..(i - 1) : a[j] = b[j]
    IN  IF d = n + 1 THEN Len(a) < Len(b)
        ELSE CodePoint(a[d]) < CodePoint(b[d])

RECURSIVE Sorted(_)
\* sorted(list(S)) for a set S of str
Sorted(S) ==
    IF S = {} THEN <<>>
    ELSE LET m == CHOOSE x \in S : \A y \in S \ {x} : StrLess(x, y)
         IN  <<m>> \o Sorted(S \ {m})

Range(s) == {s[i] : i \in DOMAIN s}

-----------------------------------------------------------------------------
(* fetch_props and crm_objects *)

NameKey == <<"n","a","m","e">>
ALL == << << [k |-> <<"p","r","o","p","e","r","t","i","e","s">>,
              v |-> <<"A","l","l">>] >> >>
HS_PREFIX == <<"h","s","_">>
PREVIEW_LENGTH == 200

\* prop.get("name")
GetName(prop) == IF HasKey(prop, NameKey) THEN Get(prop, NameKey) ELSE None

extract_properties_list(p) == [i \in DOMAIN p |-> GetName(p[i])]

CustomProps(all_props) ==
    SelectSeq(all_props, LAMBDA prop : ~StartsWith(prop, HS_PREFIX))

\* the length check with the boundary on the wrong side
TooLong_AtLimit(p) == Len(p) >= MAX_PROPS_LENGTH

\* the length check of fetch_props
TooLong(p) == Len(p) > MAX_PROPS_LENGTH

LengthError(p) ==
    [kind |-> "ValueError", limit |-> MAX_PROPS_LENGTH,
     preview |-> Slice(p, 0, PREVIEW_LENGTH), length |-> Len(p)]

\* fetch_props(object_type, api_key, spec, custom) with cat what the catalog
\* answers: the calls it issues, and the string it returns or the error it
\* raises
fetch_props(ot, spec, custom, cat) ==
    LET listed == IF spec = ALL THEN cat ELSE extract_properties_list(spec)
        calls1 == IF spec = ALL THEN << PropertyNamesCall(ot) >> ELSE <<>>
        merged == IF custom THEN listed \o CustomProps(cat) ELSE listed
        calls2 == IF custom THEN << PropertyNamesCall(ot) >> ELSE <<>>
        joined == Join(Sorted(Range(merged)), Comma)
    IN  [calls |-> calls1 \o calls2,
         raised |-> TooLong(joined),
         value |-> joined,
         error |-> IF TooLong(joined) THEN LengthError(joined) ELSE NoError]

\* crm_objects issuing the live fetch before fetch_props has validated
CrmObjects_FetchFirst ==
    /\ resource = "crm"
    /\ pc = "start"
    /\ LET r == fetch_props(object_type, prop_spec, include_custom_props, catalog)
       IN  /\ StartFetchDataForProperties(r.value, requests \o r.calls)
           /\ IF r.raised
              THEN error' = r.error /\ pc' = "failed" /\ UNCHANGED props
              ELSE props' = r.value /\ pc' = "fetching" /\ UNCHANGED error
    /\ UNCHANGED <<resource, object_type, soft_delete, catalog, yielded, idx,
                   chunks, prop_spec, include_custom_props, data, new_data,
                   object_ids, clock, end_date, last_value, pos>>

\* crm_objects (driven by resource_template) up to its first fetch
CrmObjects ==
    /\ resource = "crm"
    /\ pc = "start"
    /\ LET r == fetch_props(object_type, prop_spec, include_custom_props, catalog)
       IN  IF r.raised
           THEN /\ requests' = requests \o r.calls
                /\ error' = r.error
                /\ pc' = "failed"
                /\ UNCHANGED <<fetch, props>>
           ELSE /\ props' = r.value
                /\ StartFetchDataForProperties(r.value, requests \o r.calls)
                /\ pc' = "fetching"
                /\ UNCHANGED error
    /\ UNCHANGED <<resource, object_type, soft_delete, catalog, yielded, idx,
                   chunks, prop_spec, include_custom_props, data, new_data,
                   object_ids, clock, end_date, last_value, pos>>

\* the property names a configured list is made of
ConfiguredNames ==
    { <<"a","m","o","u","n","t">>,
      Rep("b", MAX_PROPS_LENGTH - 7),
      Rep("c", MAX_PROPS_LENGTH - 6) }

\* the property names a catalog is made of
PropNames ==
    ConfiguredNames \cup { <<"h","s","_","o","b","j","e","c","t","_","i","d">> }

Descriptor(name) == << [k |-> NameKey, v |-> name] >>

PropSpecs ==
    {ALL} \cup
    UNION { {[i \in 1..n |-> Descriptor(names[i])] : names \in [1..n -> ConfiguredNames]}
            : n \in 0..MaxSpec }

InitCrm ==
    /\ resource = "crm"
    /\ pc = "start"
    /\ object_type \in {"contact", "deal"}
    /\ soft_delete \in BOOLEAN
    /\ catalog \in DistinctSeqs(PropNames, MaxCatalog)
    /\ prop_spec \in PropSpecs
    /\ include_custom_props \in BOOLEAN
    /\ requests = <<>>
    /\ fetch = NoFetch
    /\ yielded = <<>>
    /\ error = NoError
    /\ props = <<>>
    /\ idx = 0
    /\ chunks = <<>>
    /\ data = <<>>
    /\ new_data = <<>>
    /\ object_ids = <<>>
    /\ clock = 0
    /\ end_date = <<>>
    /\ last_value = <<>>
    /\ pos = 0

NextCrm ==
    \/ CrmObjects
    \/ FetchPage
    \/ FetchLiveEndArchived
    \/ FetchReturn
    \/ FetchRaise
    \/ ConsumerStop

SpecCrm == InitCrm /\ [][NextCrm]_vars

-----------------------------------------------------------------------------
(* pivot_stages_properties applied to one page *)

Key(suffix) == STAGE_PROPERTY_PREFIX \o suffix
Entry(key, val) == [k |-> key, v |-> val]

\* the wide records a page is made of
PivotRecords ==
    { RecExample,
      \* no id property
      << Entry(Key(<<"o","p","e","n">>), <<"t","2">>) >>,
      \* a null id
      << Entry(IdProp, None), Entry(Key(<<"o","p","e","n">>), <<"t","1">>) >>,
      \* the id between two stage properties
      << Entry(Key(<<"c","l","o","s","e","d">>), <<"t","2">>),
         Entry(IdProp, <<"2">>),
         Entry(Key(<<"o","p","e","n">>), <<"t","1">>) >>,
      \* no stage property
      << Entry(IdProp, <<"3">>), Entry(<<"o","t","h","e","r">>, <<"x">>) >>,
      \* a stage name that contains the prefix again
      << Entry(IdProp, <<"4">>),
         Entry(Key(<<"a","_">> \o Key(<<"b">>)), <<"t","1">>) >>,
      \* the bare prefix as a property name
      << Entry(IdProp, <<"5">>), Entry(STAGE_PROPERTY_PREFIX, <<"t","2">>) >> }

PivotPages == UNION { [1..n -> PivotRecords] : n \in 0..MaxPageLen }

InitPivot ==
    /\ resource = "pivot"
    /\ pc = "start"
    /\ data \in PivotPages
    /\ new_data = <<>>
    /\ object_type = "deal"
    /\ soft_delete = FALSE
    /\ catalog = <<>>
    /\ requests = <<>>
    /\ fetch = NoFetch
    /\ yielded = <<>>
    /\ error = NoError
    /\ props = <<>>
    /\ idx = 0
    /\ chunks = <<>>
    /\ prop_spec = <<>>
    /\ include_custom_props = FALSE
    /\ object_ids = <<>>
    /\ clock = 0
    /\ end_date = <<>>
    /\ last_value = <<>>
    /\ pos = 0

Pivot ==
    /\ resource = "pivot"
    /\ pc = "start"
    /\ new_data' = pivot_stages_properties(data)
    /\ pc' = "done"
    /\ UNCHANGED <<resource, object_type, soft_delete, catalog, requests, fetch,
                   yielded, error, props, idx, chunks, prop_spec,
                   include_custom_props, data, object_ids, clock, end_date,
                   last_value, pos>>

NextPivot == Pivot

SpecPivot == InitPivot /\ [][NextPivot]_vars

-----------------------------------------------------------------------------
(* hubspot_events_for_objects *)

ObjectTypeStr ==
    [contact |-> <<"c","o","n","t","a","c","t">>, deal |-> <<"d","e","a","l">>]
EventsSuffix == <<"_","e","v","e","n","t","s">>
EventTypeKey == <<"e","v","e","n","t","T","y","p","e">>
OccurredAtKey == <<"o","c","c","u","r","r","e","d","A","t">>
WEB_ANALYTICS_EVENTS_ENDPOINT == "/events/v3/events"

\* isoformat() of the instant t hours after STARTDATE (2024-02-10T00:00:00Z)
IsoFormat(t) ==
    <<"2","0","2","4","-","0","2","-","1","0","T">>
    \o << Digits[(t \div 10) + 1], Digits[(t % 10) + 1] >>
    \o <<":","0","0",":","0","0","+","0","0",":","0","0">>

RECURSIVE Quote(_)
\* urllib.parse.quote: ':' and '+' are percent-encoded
Quote(s) ==
    IF s = <<>> THEN <<>>
    ELSE (IF Head(s) = ":" THEN <<"%","3","A">>
          ELSE IF Head(s) = "+" THEN <<"%","2","B">>
          ELSE << Head(s) >>) \o Quote(Tail(s))

\* "now" taken again at every fetch
WindowEnd_Now == IsoFormat(clock)

\* the value interpolated as occurredBefore
WindowEnd == end_date

\* WEB_ANALYTICS_EVENTS_ENDPOINT.format(...)
EventsUrl(ot, object_id, occurredAfter, occurredBefore) ==
    [path |-> WEB_ANALYTICS_EVENTS_ENDPOINT, objectType |-> ot,
     objectId |-> object_id, occurredAfter |-> occurredAfter,
     occurredBefore |-> occurredBefore, sort |-> "-occurredAt"]

EventsCall(object_id) ==
    [kind |-> "fetch_data",
     url |-> EventsUrl(object_type, object_id, Quote(last_value), Quote(WindowEnd))]

\* every record written to the one table of the resource name
TableName_Static(e) == ObjectTypeStr[object_type] \o EventsSuffix

\* table_name=lambda e: name + "_" + str(e["eventType"])
TableName(e) ==
    (ObjectTypeStr[object_type] \o EventsSuffix) \o <<"_">> \o Get(e, EventTypeKey)

\* the records of a page, each with the table it is written to
Route(page) == [i \in DOMAIN page |-> [table |-> TableName(page[i]), record |-> page[i]]]

StrMax(a, b) == IF StrLess(a, b) THEN b ELSE a

RECURSIVE Advance(_, _)
\* the incremental cursor after the records of a page have been seen
Advance(cursor, page) ==
    IF page = <<>> THEN cursor
    ELSE Advance(StrMax(cursor, Get(Head(page), OccurredAtKey)), Tail(page))

Event(id, type, t) ==
    << Entry(IdProp, id), Entry(EventTypeKey, type), Entry(OccurredAtKey, IsoFormat(t)) >>

Click == <<"c","l","i","c","k">>
View == <<"v","i","e","w">>

\* the pages the events endpoint answers with
EventPages ==
    { << Event(<<"e","1">>, Click, 1), Event(<<"e","2">>, View, 1) >>,
      << Event(<<"e","3">>, View, 2), Event(<<"e","4">>, Click, 2) >> }

ObjectIds == { <<"A">>, <<"B">> }

InitEvents ==
    /\ resource = "events"
    /\ pc = "start"
    /\ object_type \in {"contact"}
    /\ object_ids \in UNION { [1..n -> ObjectIds] : n \in 0..MaxIds }
    /\ clock = 2
    /\ last_value = IsoFormat(0)
    /\ end_date = <<>>
    /\ pos = 0
    /\ soft_delete = FALSE
    /\ catalog = <<>>
    /\ requests = <<>>
    /\ fetch = NoFetch
    /\ yielded = <<>>
    /\ error = NoError
    /\ props = <<>>
    /\ idx = 0
    /\ chunks = <<>>
    /\ prop_spec = <<>>
    /\ include_custom_props = FALSE
    /\ data = <<>>
    /\ new_data = <<>>

\* time passes
Tick ==
    /\ resource = "events"
    /\ clock < MaxClock
    /\ clock' = clock + 1
    /\ UNCHANGED <<resource, pc, object_type, soft_delete, catalog, requests,
                   fetch, yielded, error, props, idx, chunks, prop_spec,
                   include_custom_props, data, new_data, object_ids, end_date,
                   last_value, pos>>

\* hubspot_events_for_objects(...) is called: end_date is taken, the resource built
EventsInvoke ==
    /\ resource = "events"
    /\ pc = "start"
    /\ end_date' = IsoFormat(clock)
    /\ pc' = "loop"
    /\ UNCHANGED <<resource, object_type, soft_delete, catalog, requests, fetch,
                   yielded, error, props, idx, chunks, prop_spec,
                   include_custom_props, data, new_data, object_ids, clock,
                   last_value, pos>>

\* `for object_id in object_ids`: the next id is taken and its fetch issued
EventsNextId ==
    /\ resource = "events"
    /\ pc = "loop"
    /\ pos < Len(object_ids)
    /\ pos' = pos + 1
    /\ fetch' = [call |-> EventsCall(object_ids[pos + 1]), pages |-> 0]
    /\ requests' = Append(requests, EventsCall(object_ids[pos + 1]))
    /\ pc' = "fetching"
    /\ UNCHANGED <<resource, object_type, soft_delete, catalog, yielded, error,
                   props, idx, chunks, prop_spec, include_custom_props, data,
                   new_data, object_ids, clock, end_date, last_value>>

\* the fetch of the current id answers with one more page
EventsPage ==
    /\ resource = "events"
    /\ pc = "fetching"
    /\ fetch.pages < MaxPages
    /\ \E page \in EventPages :
          /\ yielded' = Append(yielded, [item |-> Route(page), req |-> Len(requests)])
          /\ last_value' = Advance(last_value, page)
    /\ fetch' = [fetch EXCEPT !.pages = @ + 1]
    /\ UNCHANGED <<resource, pc, object_type, soft_delete, catalog, requests,
                   error, props, idx, chunks, prop_spec, include_custom_props,
                   data, new_data, object_ids, clock, end_date, pos>>

\* the fetch of the current id is exhausted
EventsFetchEnd ==
    /\ resource = "events"
    /\ pc = "fetching"
    /\ fetch' = NoFetch
    /\ pc' = "loop"
    /\ UNCHANGED <<resource, object_type, soft_delete, catalog, requests,
                   yielded, error, props, idx, chunks, prop_spec,
                   include_custom_props, data, new_data, object_ids, clock,
                   end_date, last_value, pos>>

\* a failed fetch that is swallowed: the loop goes on with the next id
EventsFetchRaise_Skipped ==
    /\ resource = "events"
    /\ pc = "fetching"
    /\ error' = [kind |-> "fetch_data", request |-> Len(requests)]
    /\ fetch' = NoFetch
    /\ pc' = "loop"
    /\ UNCHANGED <<resource, object_type, soft_delete, catalog, requests,
                   yielded, props, idx, chunks, prop_spec,
                   include_custom_props, data, new_data, object_ids, clock,
                   end_date, last_value, pos>>

\* the fetch of the current id raises: nothing catches it, the generator ends
EventsFetchRaise ==
    /\ resource = "events"
    /\ pc = "fetching"
    /\ error' = [kind |-> "fetch_data", request |-> Len(requests)]
    /\ fetch' = NoFetch
    /\ pc' = "failed"
    /\ UNCHANGED <<resource, object_type, soft_delete, catalog, requests,
                   yielded, props, idx, chunks, prop_spec,
                   include_custom_props, data, new_data, object_ids, clock,
                   end_date, last_value, pos>>

\* the id list is exhausted
EventsEnd ==
    /\ resource = "events"
    /\ pc = "loop"
    /\ pos = Len(object_ids)
    /\ pc' = "done"
    /\ UNCHANGED <<resource, object_type, soft_delete, catalog, requests, fetch,
                   yielded, error, props, idx, chunks, prop_spec,
                   include_custom_props, data, new_data, object_ids, clock,
                   end_date, last_value, pos>>

NextEvents ==
    \/ Tick
    \/ EventsInvoke
    \/ EventsNextId
    \/ EventsPage
    \/ EventsFetchEnd
    \/ EventsFetchRaise
    \/ EventsEnd

SpecEvents == InitEvents /\ [][NextEvents]_vars

-----------------------------------------------------------------------------
(* dlt.config and Python truthiness *)

\* an optional value: None, or a value that is there
NoneValue == [found |-> FALSE]
Some(v) == [found |-> TRUE, value |-> v]

\* bool(x) for x None or a list
Truthy(x) == x.found /\ x.value # <<>>

\* dlt.config.get(key): None when the key is not configured
ConfigGet(config, key) ==
    IF key \in DOMAIN config THEN Some(config[key]) ELSE NoneValue

-----------------------------------------------------------------------------
(* yield from <paged call> as the last statement of a generator:
   get_pipelines and crm_object_history *)

\* a page the pipelines endpoint answers with
PipelinePage ==
    << << [k |-> IdProp, v |-> <<"p","1">>],
          [k |-> <<"l","a","b","e","l">>, v |-> <<"S","a","l","e","s">>] >> >>

\* a page fetch_property_history answers with
HistoryPage ==
    << << [k |-> <<"o","b","j","e","c","t","_","i","d">>, v |-> <<"1">>],
          [k |-> <<"p","r","o","p","e","r","t","y","_","n","a","m","e">>,
           v |-> <<"a","m","o","u","n","t">>],
          [k |-> <<"v","a","l","u","e">>, v |-> <<"1","0">>] >> >>

\* the pages the call being drained can answer with
PagesOf(call) ==
    IF call.kind = "fetch_property_history" THEN {HistoryPage} ELSE {PipelinePage}

\* the call answers with one more page, which the generator yields as it is
YieldFromPage ==
    /\ resource \in {"pipelines", "history"}
    /\ pc = "fetching"
    /\ fetch.pages < MaxPages
    /\ \E page \in PagesOf(fetch.call) :
          yielded' = Append(yielded, [item |-> page, req |-> Len(requests)])
    /\ fetch' = [fetch EXCEPT !.pages = @ + 1]
    /\ UNCHANGED <<resource, pc, object_type, soft_delete, catalog, requests,
                   error, props, idx, chunks, prop_spec, include_custom_props,
                   data, new_data, object_ids, clock, end_date, last_value, pos>>

\* the call is exhausted: the generator returns
YieldFromReturn ==
    /\ resource \in {"pipelines", "history"}
    /\ pc = "fetching"
    /\ fetch' = NoFetch
    /\ pc' = "done"
    /\ UNCHANGED <<resource, object_type, soft_delete, catalog, requests,
                   yielded, error, props, idx, chunks, prop_spec,
                   include_custom_props, data, new_data, object_ids, clock,
                   end_date, last_value, pos>>

\* the call raises: nothing catches it, the generator ends
YieldFromRaise ==
    /\ resource \in {"pipelines", "history"}
    /\ pc = "fetching"
    /\ error' = [kind |-> fetch.call.kind, request |-> Len(requests)]
    /\ fetch' = NoFetch
    /\ pc' = "failed"
    /\ UNCHANGED <<resource, object_type, soft_delete, catalog, requests,
                   yielded, props, idx, chunks, prop_spec,
                   include_custom_props, data, new_data, object_ids, clock,
                   end_date, last_value, pos>>

-----------------------------------------------------------------------------
(* get_pipelines: the pipelines_<obj_type> resource *)

PipelinesCall(obj_type) ==
    [kind |-> "fetch_data", endpoint |-> CRM_PIPELINES_ENDPOINT(obj_type),
     params |-> None, context |-> NoContext]

\* get_pipelines(object_type) up to its fetch
GetPipelines ==
    /\ resource = "pipelines"
    /\ pc = "start"
    /\ fetch' = [call |-> PipelinesCall(object_type), pages |-> 0]
    /\ requests' = Append(requests, PipelinesCall(object_type))
    /\ pc' = "fetching"
    /\ UNCHANGED <<resource, object_type, soft_delete, catalog, yielded, error,
                   props, idx, chunks, prop_spec, include_custom_props, data,
                   new_data, object_ids, clock, end_date, last_value, pos>>

InitPipelines ==
    /\ resource = "pipelines"
    /\ pc = "start"
    /\ object_type \in Range(PIPELINES_OBJECTS)
    /\ soft_delete \in BOOLEAN
    /\ catalog = <<>>
    /\ requests = <<>>
    /\ fetch = NoFetch
    /\ yielded = <<>>
    /\ error = NoError
    /\ props = <<>>
    /\ idx = 0
    /\ chunks = <<>>
    /\ prop_spec = <<>>
    /\ include_custom_props = FALSE
    /\ data = <<>>
    /\ new_data = <<>>
    /\ object_ids = <<>>
    /\ clock = 0
    /\ end_date = <<>>
    /\ last_value = <<>>
    /\ pos = 0

NextPipelines ==
    \/ GetPipelines
    \/ YieldFromPage
    \/ YieldFromReturn
    \/ YieldFromRaise
    \/ ConsumerStop

SpecPipelines == InitPipelines /\ [][NextPipelines]_vars

-----------------------------------------------------------------------------
(* crm_object_history, driven by resource_history_template *)

HistoryCall(ot, p) ==
    [kind |-> "fetch_property_history", endpoint |-> CRM_OBJECT_ENDPOINTS[ot],
     props |-> p]

\* dlt.config.get(PROPERTIES_CONFIG_KEY.format(OBJECT_TYPE_PLURAL[ot]))
\*     or DEFAULT_PROPERTIES[ot]
\* the configured descriptors, the default names, or the KeyError of the lookup
HistoryProps(ot, config) ==
    LET configured == ConfigGet(config, PROPERTIES_CONFIG_KEY(OBJECT_TYPE_PLURAL[ot]))
    IN  IF Truthy(configured) THEN [kind |-> "descriptors", value |-> configured.value]
        ELSE IF ot \in DOMAIN DEFAULT_PROPERTIES
             THEN [kind |-> "names", value |-> DEFAULT_PROPERTIES[ot]]
             ELSE [kind |-> "KeyError", key |-> ot]

\* prop.get("name") on a str
AttributeError == [kind |-> "AttributeError", type |-> "str", attribute |-> "get"]

\* crm_object_history up to its fetch_property_history call
CrmObjectHistory ==
    /\ resource = "history"
    /\ pc = "start"
    /\ LET hp == HistoryProps(object_type, prop_spec)
       IN  IF hp.kind = "KeyError"
           THEN /\ error' = hp
                /\ pc' = "failed"
                /\ UNCHANGED <<requests, fetch, props>>
           ELSE IF hp.kind = "names" /\ hp.value # <<>>
           THEN \* a list of str is not ALL: extract_properties_list is applied
                /\ error' = AttributeError
                /\ pc' = "failed"
                /\ UNCHANGED <<requests, fetch, props>>
           ELSE LET r == fetch_props(object_type, hp.value, include_custom_props,
                                     catalog)
                IN  IF r.raised
                    THEN /\ requests' = requests \o r.calls
                         /\ error' = r.error
                         /\ pc' = "failed"
                         /\ UNCHANGED <<fetch, props>>
                    ELSE /\ props' = r.value
                         /\ fetch' = [call |-> HistoryCall(object_type, r.value),
                                      pages |-> 0]
                         /\ requests' = (requests \o r.calls)
                                           \o << HistoryCall(object_type, r.value) >>
                         /\ pc' = "fetching"
                         /\ UNCHANGED error
    /\ UNCHANGED <<resource, object_type, soft_delete, catalog, yielded, idx,
                   chunks, prop_spec, include_custom_props, data, new_data,
                   object_ids, clock, end_date, last_value, pos>>

\* the configurations of one object type: nothing, or a property list
ConfigsOf(ot) ==
    { [k \in {} |-> <<>>] } \cup
    { [k \in {PROPERTIES_CONFIG_KEY(OBJECT_TYPE_PLURAL[ot])} |-> s] : s \in PropSpecs }

InitHistory ==
    /\ resource = "history"
    /\ pc = "start"
    /\ object_type \in {"deal", "owner"}
    /\ soft_delete = FALSE
    /\ catalog \in DistinctSeqs(PropNames, MaxCatalog)
    /\ prop_spec \in ConfigsOf(object_type)
    /\ include_custom_props \in BOOLEAN
    /\ requests = <<>>
    /\ fetch = NoFetch
    /\ yielded = <<>>
    /\ error = NoError
    /\ props = <<>>
    /\ idx = 0
    /\ chunks = <<>>
    /\ data = <<>>
    /\ new_data = <<>>
    /\ object_ids = <<>>
    /\ clock = 0
    /\ end_date = <<>>
    /\ last_value = <<>>
    /\ pos = 0

NextHistory ==
    \/ CrmObjectHistory
    \/ YieldFromPage
    \/ YieldFromReturn
    \/ YieldFromRaise
    \/ ConsumerStop

SpecHistory == InitHistory /\ [][NextHistory]_vars

-----------------------------------------------------------------------------
(* hubspot_properties: the properties resource *)

AddPropertyLabelKey ==
    <<"a","d","d","_","p","r","o","p","e","r","t","y","_","l","a","b","e","l">>

\* col.get("add_property_label", False), as a condition
WantsLabel(col) ==
    HasKey(col, AddPropertyLabelKey) /\ Get(col, AddPropertyLabelKey) = True

\* the entries appended for the columns of one object type
LabelledColumns(ot, cols) ==
    LET wanted == SelectSeq(cols, WantsLabel)
    IN  [i \in DOMAIN wanted |->
            [object_type |-> ot, property_name |-> Get(wanted[i], NameKey)]]

RECURSIVE LabelledFrom(_, _)
\* the for loop of get_properties_with_labels_from_config from object type n on
LabelledFrom(config, n) ==
    IF n > Len(ALL_OBJECTS) THEN <<>>
    ELSE LET ot == ALL_OBJECTS[n]
             configured ==
                 ConfigGet(config, PROPERTIES_CONFIG_KEY(OBJECT_TYPE_PLURAL[ot]))
             object_cols == IF Truthy(configured) THEN configured.value ELSE <<>>
         IN  LabelledColumns(ot, object_cols) \o LabelledFrom(config, n + 1)

get_properties_with_labels_from_config(config) == LabelledFrom(config, 1)

PropertiesLabelsCall(property_info) ==
    [kind |-> "get_properties_labels",
     object_type |-> property_info.object_type,
     property_name |-> property_info.property_name]

\* what get_properties_labels returns for a property
LabelRecord(property_info) ==
    << [k |-> NameKey, v |-> property_info.property_name],
       [k |-> <<"l","a","b","e","l">>, v |-> <<"L">> \o property_info.property_name] >>

\* properties_list = properties_list or get_properties_with_labels_from_config()
PropertiesStart ==
    /\ resource = "properties"
    /\ pc = "start"
    /\ new_data' = IF Truthy(data) THEN data.value
                   ELSE get_properties_with_labels_from_config(prop_spec)
    /\ pc' = "loop"
    /\ UNCHANGED <<resource, object_type, soft_delete, catalog, requests, fetch,
                   yielded, error, props, idx, chunks, prop_spec,
                   include_custom_props, data, object_ids, clock, end_date,
                   last_value, pos>>

\* one iteration of get_properties_description: the labels are asked for and
\* yielded
PropertiesNext ==
    /\ resource = "properties"
    /\ pc = "loop"
    /\ pos < Len(new_data)
    /\ pos' = pos + 1
    /\ requests' = Append(requests, PropertiesLabelsCall(new_data[pos + 1]))
    /\ yielded' = Append(yielded, [item |-> LabelRecord(new_data[pos + 1]),
                                   req |-> Len(requests) + 1])
    /\ UNCHANGED <<resource, pc, object_type, soft_delete, catalog, fetch, error,
                   props, idx, chunks, prop_spec, include_custom_props, data,
                   new_data, object_ids, clock, end_date, last_value>>

\* get_properties_labels raises: nothing catches it, the generator ends
PropertiesRaise ==
    /\ resource = "properties"
    /\ pc = "loop"
    /\ pos < Len(new_data)
    /\ requests' = Append(requests, PropertiesLabelsCall(new_data[pos + 1]))
    /\ error' = [kind |-> "get_properties_labels", request |-> Len(requests) + 1]
    /\ pc' = "failed"
    /\ UNCHANGED <<resource, object_type, soft_delete, catalog, fetch, yielded,
                   props, idx, chunks, prop_spec, include_custom_props, data,
                   new_data, object_ids, clock, end_date, last_value, pos>>

\* the list is exhausted: the generator returns
PropertiesEnd ==
    /\ resource = "properties"
    /\ pc = "loop"
    /\ pos = Len(new_data)
    /\ pc' = "done"
    /\ UNCHANGED <<resource, object_type, soft_delete, catalog, requests, fetch,
                   yielded, error, props, idx, chunks, prop_spec,
                   include_custom_props, data, new_data, object_ids, clock,
                   end_date, last_value, pos>>

\* a column descriptor marked for label lookup
LabelledDescriptor(name) ==
    << [k |-> NameKey, v |-> name], [k |-> AddPropertyLabelKey, v |-> True] >>

LabelNames == { <<"a","m","o","u","n","t">>, <<"e","m","a","i","l">> }

\* the column lists an object type is configured with
LabelColumns ==
    {ALL} \cup
    UNION { [1..n -> {Descriptor(name) : name \in LabelNames}
                       \cup {LabelledDescriptor(name) : name \in LabelNames}]
            : n \in 0..MaxSpec }

\* the configurations: any of the keys of "deals" and "contacts", or none
LabelConfigs ==
    UNION { [K -> LabelColumns]
            : K \in SUBSET {PROPERTIES_CONFIG_KEY("deals"),
                            PROPERTIES_CONFIG_KEY("contacts")} }

\* the properties_list arguments: None or a list of property infos
PropertiesLists ==
    {NoneValue} \cup
    { Some(l) : l \in UNION { [1..n -> {[object_type |-> "deal",
                                          property_name |-> name]
                                         : name \in LabelNames}]
                              : n \in 0..MaxSpec } }

InitProperties ==
    /\ resource = "properties"
    /\ pc = "start"
    /\ object_type = "none"
    /\ soft_delete = FALSE
    /\ catalog = <<>>
    /\ prop_spec \in LabelConfigs
    /\ data \in PropertiesLists
    /\ include_custom_props = FALSE
    /\ requests = <<>>
    /\ fetch = NoFetch
    /\ yielded = <<>>
    /\ error = NoError
    /\ props = <<>>
    /\ idx = 0
    /\ chunks = <<>>
    /\ new_data = <<>>
    /\ object_ids = <<>>
    /\ clock = 0
    /\ end_date = <<>>
    /\ last_value = <<>>
    /\ pos = 0

NextProperties ==
    \/ PropertiesStart
    \/ PropertiesNext
    \/ PropertiesRaise
    \/ PropertiesEnd

SpecProperties == InitProperties /\ [][NextProperties]_vars

-----------------------------------------------------------------------------
(* hubspot: the resources the source yields *)

\* the resources of resource_template, one for each object type
ObjectResources ==
    [i \in DOMAIN ALL_OBJECTS |->
        [name |-> OBJECT_TYPE_PLURAL[ALL_OBJECTS[i]], kind |-> "crm",
         entity |-> ALL_OBJECTS[i], write_disposition |-> "merge"]]

\* the resources of resource_history_template, one for each object type
HistoryResources ==
    [i \in DOMAIN ALL_OBJECTS |->
        [name |-> OBJECT_TYPE_PLURAL[ALL_OBJECTS[i]] \o "_property_history",
         kind |-> "history", entity |-> ALL_OBJECTS[i],
         write_disposition |-> "merge"]]

RECURSIVE PipelinesFrom(_)
\* hubspot_pipelines_for_objects from the n-th element of PIPELINES_OBJECTS on
PipelinesFrom(n) ==
    IF n > Len(PIPELINES_OBJECTS) THEN <<>>
    ELSE LET obj_type == PIPELINES_OBJECTS[n]
         IN  << [name |-> "pipelines_" \o obj_type, kind |-> "pipelines",
                 entity |-> obj_type, write_disposition |-> "merge"] >>
             \o (IF obj_type \in DOMAIN OBJECT_TYPE_SINGULAR
                 THEN << [name |-> "stages_timing_" \o obj_type, kind |-> "stages",
                          entity |-> OBJECT_TYPE_SINGULAR[obj_type],
                          write_disposition |-> "merge"] >>
                 ELSE <<>>)
             \o PipelinesFrom(n + 1)

hubspot_pipelines_for_objects == PipelinesFrom(1)

PropertiesResource ==
    [name |-> "properties", kind |-> "properties", entity |-> "none",
     write_disposition |-> "replace"]

\* hubspot(api_key, include_history, soft_delete, include_custom_props)
hubspot(include_history) ==
    ObjectResources
        \o (IF include_history THEN HistoryResources ELSE <<>>)
        \o hubspot_pipelines_for_objects
        \o << PropertiesResource >>

\* the start of a run of resource r of the source
InitResource(r) ==
    /\ CASE r.kind = "crm" -> InitCrm
         [] r.kind = "history" -> InitHistory
         [] r.kind = "pipelines" -> InitPipelines
         [] r.kind = "stages" -> InitStages
         [] r.kind = "properties" -> InitProperties
    /\ object_type = r.entity

InitSource ==
    \E include_history \in BOOLEAN :
        \E i \in DOMAIN hubspot(include_history) :
            InitResource(hubspot(include_history)[i])

-----------------------------------------------------------------------------
(* One run drives one of the resources *)

\* a resource of the source, the pivot on its own, or the event router
Init == InitSource \/ InitPivot \/ InitEvents

Next ==
    \/ NextStages
    \/ NextCrm
    \/ NextHistory
    \/ NextPipelines
    \/ NextProperties
    \/ NextPivot
    \/ NextEvents

Spec == Init /\ [][Next]_vars

-----------------------------------------------------------------------------
(* Claims about the chunking loop of stages_timing *)

IsPrefix(s, t) == Len(s) <= Len(t) /\ SubSeq(t, 1, Len(s)) = s

Oversized == Len(props) > MAX_PROPS_LENGTH

\* C1: for an oversized property string the chunks requested so far,
\* re-joined with ',', are always an initial part of the original string, and
\* when the loop has ended they are the original string exactly.
C1_RejoinReproduces ==
    (resource = "stages" /\ pc # "start" /\ Oversized) =>
        /\ IsPrefix(Join(chunks, Comma), props)
        /\ pc = "done" => Join(chunks, Comma) = props

\* C2: every chunk passed to fetch_data_for_properties is at most
\* MAX_PROPS_LENGTH long and is the ','-join of one or more consecutive whole
\* names of the stage-prefixed property list.
C2_ChunksRequestSafe ==
    resource = "stages" =>
        \A c \in DOMAIN chunks :
            /\ Len(chunks[c]) <= MAX_PROPS_LENGTH
            /\ LET names == DateEnteredProperties(catalog)
               IN  \E a, b \in DOMAIN names :
                      a <= b /\ chunks[c] = Join(SubSeq(names, a, b), Comma)

\* C7: every iteration of the chunking loop strictly advances the cursor idx
\* (so the loop ends after finitely many chunks).
C7_CursorAdvances ==
    [][(resource = "stages" /\ pc = "loop" /\ pc' = "fetching") => idx' > idx]_vars

-----------------------------------------------------------------------------
(* Claims about fetch_props, crm_objects and fetch_data_for_properties *)

\* the names the property spec asks for
Requested ==
    IF prop_spec = ALL THEN Range(catalog)
    ELSE {Get(prop_spec[i], NameKey) : i \in DOMAIN prop_spec}

\* the union fetch_props has to resolve
Wanted ==
    Requested \cup
    (IF include_custom_props
     THEN {n \in Range(catalog) : ~StartsWith(n, HS_PREFIX)} ELSE {})

RECURSIVE SumLen(_)
SumLen(S) ==
    IF S = {} THEN 0 ELSE LET x == CHOOSE x \in S : TRUE IN Len(x) + SumLen(S \ {x})

\* length of the ','-join of the names of S
JoinedLength(S) == IF S = {} THEN 0 ELSE SumLen(S) + Cardinality(S) - 1

\* r is the ','-join of the names of S in strictly ascending order
IsSortedJoinOf(r, S) ==
    IF S = {} THEN r = <<>>
    ELSE LET t == Split(r, Comma)
         IN  /\ Range(t) = S
             /\ \A i \in 1..(Len(t) - 1) : StrLess(t[i], t[i + 1])

\* fetch_props has just returned or raised (crm_objects took its first step)
FetchPropsDone ==
    /\ resource = "crm"
    /\ \/ pc = "failed" /\ error.kind = "ValueError"
       \/ pc = "fetching" /\ fetch.part = "live" /\ fetch.pages = 0

\* C3: fetch_props returns the ','-join of the sorted duplicate-free union
\* of the requested names (and the non-hs_ catalog names when
\* include_custom_props), of length at most MAX_PROPS_LENGTH, or, exactly
\* when that join is longer, raises the length error reporting the limit and
\* the actual length.
C3_FetchPropsResolves ==
    FetchPropsDone =>
        IF JoinedLength(Wanted) > MAX_PROPS_LENGTH
        THEN /\ pc = "failed"
             /\ error.kind = "ValueError"
             /\ error.limit = MAX_PROPS_LENGTH
             /\ error.length = JoinedLength(Wanted)
        ELSE /\ pc = "fetching"
             /\ error = NoError
             /\ fetch.call.params.properties = props
             /\ IsSortedJoinOf(props, Wanted)
             /\ Len(props) <= MAX_PROPS_LENGTH

\* C3 witness: a string of exactly MAX_PROPS_LENGTH characters, resolved from
\* a configured name and a custom catalog name, was returned.
C3_Witness ==
    /\ resource = "crm"
    /\ pc = "fetching"
    /\ include_custom_props
    /\ Cardinality(Wanted) = 2
    /\ Cardinality(Requested) = 1
    /\ Len(props) = MAX_PROPS_LENGTH

IsArchived(call) == "archived" \in DOMAIN call.params

MarkedDeleted(context) ==
    HasKey(context, SOFT_DELETE_KEY) /\ Get(context, SOFT_DELETE_KEY) = True

\* C4: under soft_delete every archived page is emitted after every live
\* page, every archived fetch is tagged is_deleted = True, and no live fetch
\* is.
C4_ArchivedAfterLive ==
    resource = "crm" =>
        /\ \A i, j \in DOMAIN yielded :
              (IsArchived(requests[yielded[i].req])
                 /\ ~IsArchived(requests[yielded[j].req])) => j < i
        /\ \A r \in DOMAIN requests :
              requests[r].kind = "fetch_data" =>
                  (MarkedDeleted(requests[r].context) <=> IsArchived(requests[r]))

\* C4 witness: a live page and then an archived page have been emitted.
C4_Witness ==
    /\ resource = "crm"
    /\ soft_delete
    /\ \E i, j \in DOMAIN yielded :
          /\ i < j
          /\ ~IsArchived(requests[yielded[i].req])
          /\ IsArchived(requests[yielded[j].req])

LengthErrorRaised == resource = "crm" /\ error.kind = "ValueError"

\* C8 as stated: when the length error is raised no request to any external
\* collaborator has been issued and no page has been yielded.
C8_NoNetworkBeforeError ==
    LengthErrorRaised => requests = <<>> /\ yielded = <<>>

\* C8 amended: when the length error is raised no fetch_data request has been
\* issued and no page yielded; the only calls issued are the catalog lookups
\* of fetch_props (one for ALL, one for include_custom_props); the generator
\* has ended and takes no further step.
C8_NoFetchBeforeError ==
    LengthErrorRaised =>
        /\ yielded = <<>>
        /\ fetch = NoFetch
        /\ \A r \in DOMAIN requests : requests[r] = PropertyNamesCall(object_type)
        /\ Len(requests) = (IF prop_spec = ALL THEN 1 ELSE 0)
                           + (IF include_custom_props THEN 1 ELSE 0)
        /\ pc = "failed"
        /\ ~ENABLED NextCrm

\* C8 witness: the length error was raised after both catalog lookups.
C8_Witness ==
    /\ LengthErrorRaised
    /\ prop_spec = ALL
    /\ include_custom_props
    /\ Len(requests) = 2

-----------------------------------------------------------------------------
(* Claim about pivot_stages_properties *)

\* the part of a property name after the prefix
AfterPrefix(name, prefix) == Slice(name, Len(prefix), Len(name))

\* the rows one record contributes according to the description
RowsOf(record, prefix, id_prop) ==
    IF ~\E i \in DOMAIN record : record[i].k = id_prop /\ record[i].v # None
    THEN <<>>
    ELSE LET id_val == Get(record, id_prop)
             staged == SelectSeq(record, LAMBDA e :
                           /\ e.k # id_prop
                           /\ StartsWith(e.k, prefix)
                           /\ e.v # None)
         IN  [i \in DOMAIN staged |->
                { Entry(id_prop, id_val),
                  Entry(StageKey, AfterPrefix(staged[i].k, prefix)),
                  Entry(prefix, staged[i].v) }]

RECURSIVE RowsFrom(_, _)
RowsFrom(page, i) ==
    IF i > Len(page) THEN <<>>
    ELSE RowsOf(page[i], STAGE_PROPERTY_PREFIX, IdProp) \o RowsFrom(page, i + 1)

\* C5: the pivot of a page is, record by record and property by property in
\* insertion order, one row {id, stage: the name after the prefix,
\* <prefix>: value} for each non-null stage-prefixed property of each record
\* that has a non-null id.
C5_PivotRows ==
    (resource = "pivot" /\ pc = "done") =>
        /\ Len(new_data) = Len(RowsFrom(data, 1))
        /\ \A i \in DOMAIN new_data : Items(new_data[i]) = RowsFrom(data, 1)[i]

-----------------------------------------------------------------------------
(* Claims about the event router *)

Routed(i) == yielded[i].item

\* C6: one fetch per id, issued in input-list order; the pages come out in
\* the order of the ids they were fetched for; every record is written to
\* the table '<objectType>_events_<eventType>' of its own eventType, so two
\* records share a table exactly when they share the eventType.
C6_RoutedInIdOrder ==
    resource = "events" =>
        /\ Len(requests) = pos
        /\ \A r \in DOMAIN requests : requests[r].url.objectId = object_ids[r]
        /\ \A i, j \in DOMAIN yielded : i < j => yielded[i].req <= yielded[j].req
        /\ \A i \in DOMAIN yielded : \A n \in DOMAIN Routed(i) :
              /\ Routed(i)[n].table =
                    ObjectTypeStr[object_type] \o EventsSuffix \o <<"_">>
                       \o Get(Routed(i)[n].record, EventTypeKey)
              /\ \A j \in DOMAIN yielded : \A m \in DOMAIN Routed(j) :
                    (Routed(i)[n].table = Routed(j)[m].table)
                       <=> (Get(Routed(i)[n].record, EventTypeKey)
                              = Get(Routed(j)[m].record, EventTypeKey))

\* C6 witness: pages of a first id and then of a different second id were
\* routed, with both event types among them.
C6_Witness ==
    /\ resource = "events"
    /\ \E i, j \in DOMAIN yielded :
          /\ yielded[i].req = 1
          /\ yielded[j].req = 2
          /\ object_ids[1] # object_ids[2]
          /\ \E n, m \in DOMAIN Routed(i) : Routed(i)[n].table # Routed(i)[m].table

\* C9: end_date is taken once, before the first fetch, and never changes;
\* every fetch is issued with occurredBefore = quote(end_date) and
\* occurredAfter = quote(cursor.last_value) as it stands at that moment.
C9_WindowEndFixed ==
    /\ [](resource = "events" =>
            /\ pc = "start" => requests = <<>>
            /\ \A r \in DOMAIN requests :
                  requests[r].url.occurredBefore = Quote(end_date))
    /\ [][resource = "events" =>
            /\ pc # "start" => end_date' = end_date
            /\ Len(requests') > Len(requests) =>
                  /\ requests'[Len(requests')].url.occurredAfter = Quote(last_value)
                  /\ requests'[Len(requests')].url.occurredBefore = Quote(end_date)]_vars

\* C9 witness: two fetches were issued, the cursor and the clock having
\* moved on since end_date was taken and the first fetch was issued.
C9_Witness ==
    /\ resource = "events"
    /\ Len(requests) = 2
    /\ fetch # NoFetch
    /\ fetch.pages = 0
    /\ requests[1].url.occurredAfter # requests[2].url.occurredAfter
    /\ IsoFormat(clock) # end_date

\* C10: a failing fetch ends the generator with that failure; what was
\* yielded before stays delivered; no fetch is issued for a later id.
C10_FailurePropagates ==
    /\ [](resource = "events" =>
            /\ error # NoError <=> pc = "failed"
            /\ pc = "failed" =>
                  /\ error = [kind |-> "fetch_data", request |-> pos]
                  /\ Len(requests) = pos)
    /\ [][resource = "events" =>
            /\ IsPrefix(yielded, yielded')
            /\ pc' = "failed" => /\ yielded' = yielded
                                 /\ requests' = requests
                                 /\ pos' = pos]_vars

\* C10 witness: the fetch of the second id failed after pages of the first
\* and of the second id were delivered.
C10_Witness ==
    /\ resource = "events"
    /\ pc = "failed"
    /\ error.request = 2
    /\ \E i, j \in DOMAIN yielded : yielded[i].req = 1 /\ yielded[j].req = 2

-----------------------------------------------------------------------------
(* Claim about the fetches of fetch_data_for_properties *)

\* the fetch_data calls issued so far
Fetches == SelectSeq(requests, LAMBDA r : r.kind = "fetch_data")

FetchesWanted == IF soft_delete THEN 2 ELSE 1

\* C11: fetch_data_for_properties issues one live fetch (properties = props,
\* limit = 100, no deleted tag, no context at all without soft_delete) and,
\* under soft_delete only, a second fetch of the same endpoint and parameters
\* plus archived = true; a completed run has issued exactly these; the fetch
\* in flight is always the last one issued; the archived fetch is issued
\* only by the step that ends the live one, and once the consumer has
\* stopped nothing more is requested or yielded.
C11_OneOrTwoFetches ==
    /\ [](resource = "crm" =>
            /\ Len(Fetches) <= FetchesWanted
            /\ pc = "done" => Len(Fetches) = FetchesWanted
            /\ pc \in {"fetching", "done", "closed"} => Len(Fetches) >= 1
            /\ Len(Fetches) >= 1 =>
                  /\ Fetches[1].endpoint = CRM_OBJECT_ENDPOINTS[object_type]
                  /\ Fetches[1].params = [properties |-> props, limit |-> PAGE_LIMIT]
                  /\ ~MarkedDeleted(Fetches[1].context)
                  /\ ~soft_delete => Fetches[1].context = NoContext
            /\ Len(Fetches) = 2 =>
                  /\ Fetches[2].endpoint = Fetches[1].endpoint
                  /\ Fetches[2].params =
                        [properties |-> props, limit |-> PAGE_LIMIT, archived |-> TRUE]
            /\ fetch # NoFetch => fetch.call = requests[Len(requests)])
    /\ [][resource = "crm" =>
            /\ (Len(Fetches') = 2 /\ Len(Fetches) = 1) =>
                  /\ pc = "fetching" /\ fetch.call = Fetches[1]
                  /\ fetch'.call = Fetches'[2] /\ fetch'.pages = 0
                  /\ yielded' = yielded
            /\ pc' = "closed" => requests' = requests /\ yielded' = yielded
            /\ pc = "closed" => pc' = "closed"]_vars

\* C11 witness: under soft_delete the consumer stopped after a live page,
\* with the live fetch the only one issued.
C11_Witness ==
    /\ resource = "crm"
    /\ soft_delete
    /\ pc = "closed"
    /\ Len(Fetches) = 1
    /\ Len(yielded) >= 1
    /\ ~IsArchived(requests[yielded[Len(yielded)].req])

\* the cursor value c0 at the start of a run of the event router
StartCursor == IsoFormat(0)

\* C12: in one run of the event router every fetch, whichever id of the
\* list it is for, is issued with the lower bound occurredAfter = quote(c0),
\* c0 being the cursor value at the start of the run; events seen for an
\* earlier id do not move the window of a later id.
C12_WindowStartFixed ==
    resource = "events" =>
        \A r \in DOMAIN requests :
            requests[r].url.occurredAfter = Quote(StartCursor)

====
